---- MODULE Spec2Model ----
(***************************************************************************)
(* Model of the write path of lite-rpc:                                    *)
(*   - src/src/workers/tx_sender.rs: TxSender::execute (the batching       *)
(*     loop) and TxSender::forward_txs (the spawned forward task);         *)
(*   - src/history/src/block_stores/postgres_block_store.rs:               *)
(*     PostgresBlockStore (epoch partitions, write_block).                 *)
(* The two subsystems share no state; each has its own specification.     *)
(***************************************************************************)
EXTENDS Integers, Sequences, FiniteSets, TLC

\* ------------------------------------------------------------------ bounds
\* number of entries the owners of the inbound channel submit in a run
MaxSubmit == 3
\* the tx_batch_size argument of TxSender::execute
tx_batch_size == 2
\* the tx_send_interval argument of TxSender::execute, in clock ticks (> 0)
tx_send_interval == 1

\* signatures clients submit (two, so that a signature can be sent twice)
Sigs == {"sigA", "sigB"}
\* recent slots clients submit (all below 2^63, so `as i64` keeps the value)
RecentSlots == {5}

VARIABLES
    \* ---- tx_sender.rs
    recv,            \* the unbounded channel (String, WireTransaction, u64)
    senders_alive,   \* some Sender of the channel still exists
    n_submitted,     \* entries submitted so far (also numbers the payloads)
    pc,              \* position of the task spawned by execute
    result,          \* what the JoinHandle of execute yields
    elapsed,         \* prev_inst.elapsed(), saturating at tx_send_interval
    sigs_and_slots,  \* accumulator of (sig, slot) in execute
    txs,             \* accumulator of wire transactions in execute
    last_handed,     \* arguments of the latest forward_txs call
    tasks,           \* the forward tasks spawned, in spawn order
    txs_sent,        \* TxSender::txs_sent, the Signature Registry
    postgres_send,   \* the Option<PostgresMpscSend> argument (TRUE = Some)
    pg_chan,         \* messages sent on the PostgresMpscSend channel
    \* ---- postgres_block_store.rs
    schemas,         \* per epoch, the objects of its schema that exist
    block_rows,      \* the rows of the blocks tables
    tx_rows,         \* the rows of the transactions tables, by chunk
    prov,            \* the calls of start_new_epoch_if_necessary
    wr,              \* the calls of write_block
    prep,            \* the calls of prepare_epoch_schema
    fanout           \* one computation of the chunks of a transaction list

dvars == <<recv, senders_alive, n_submitted, pc, result, elapsed,
           sigs_and_slots, txs, last_handed, tasks, txs_sent,
           postgres_send, pg_chan>>

svars == <<schemas, block_rows, tx_rows, prov, wr, prep, fanout>>

vars == <<dvars, svars>>

\* ---------------------------------------------------------------- helpers
\* the elements of a sequence
SeqToSet(s) == {s[i] : i \in 1..Len(s)}

\* the signatures of a batch of (sig, slot) pairs
BatchSigs(batch) == {batch[i][1] : i \in 1..Len(batch)}

\* ------------------------------------------------------------ TxProps
\* TxProps::default(): status None, sent_at = Instant::now(). The instant is
\* represented by the forward task that took it.
TxPropsDefault(t) == [status |-> "None", sent_at |-> t]

\* ----------------------------------------------------- TxSender::execute
\* mutant: the interval bound taken as inclusive
WhileCond_Inclusive(el, len) == (el <= tx_send_interval) \/ (len = tx_batch_size)

\* the condition of the while loop (line 126)
WhileCond(el, len) == (el < tx_send_interval) \/ (len = tx_batch_size)

\* mutant: disconnection ends the task with Ok(())
DisconnectedResult_Ok == "Ok"

\* the result of the task on TryRecvError::Disconnected (bail!, line 133)
DisconnectedResult == "Err"

\* tokio's UnboundedReceiver::try_recv: a queued message if there is one,
\* else Disconnected if every sender is gone, else Empty
TryRecvOutcome == IF recv # <<>> THEN "Ok"
                  ELSE IF ~senders_alive THEN "Disconnected"
                  ELSE "Empty"

\* the PostgresTx message built for one (sig, recent_slot) (lines 91-99)
PostgresTx(sig, recent_slot, quic_response) ==
    [signature |-> sig, recent_slot |-> recent_slot, forwarded_slot |-> 0,
     processed_slot |-> "None", cu_consumed |-> "None",
     cu_requested |-> "None", quic_response |-> quic_response]

\* the messages one forward task sends to postgres, in batch order
PostgresMsgs(batch, quic_response) ==
    [i \in 1..Len(batch) |->
        PostgresTx(batch[i][1], batch[i][2], quic_response)]

\* the task forward_txs spawns (lines 71-74): it owns the batch and the
\* postgres handle; answer is the Forwarder's answer, attempts counts the
\* calls of try_send_wire_transaction_batch
NewTask(batch, payloads, postgres) ==
    [sigs_and_slots |-> batch, txs |-> payloads, postgres |-> postgres,
     state |-> "sending", answer |-> "pending", quic_response |-> -1,
     attempts |-> 0]

\* forward_txs (lines 59-104): an empty batch returns at once, any other
\* spawns one task; nothing is awaited. The two vectors are pushed together
\* in execute, so the assert_eq on their lengths holds.
ForwardTxs(batch, payloads, postgres) ==
    IF batch = <<>> THEN tasks ELSE Append(tasks, NewTask(batch, payloads, postgres))

\* ---- environment of the channel
Submit(sig, slot) ==
    /\ senders_alive
    /\ n_submitted < MaxSubmit
    /\ n_submitted' = n_submitted + 1
    /\ recv' = Append(recv, [sig |-> sig, tx |-> n_submitted + 1, slot |-> slot])
    /\ UNCHANGED <<senders_alive, pc, result, elapsed, sigs_and_slots, txs,
                   last_handed, tasks, txs_sent, postgres_send, pg_chan>>
    /\ UNCHANGED svars

DropSenders ==
    /\ senders_alive
    /\ senders_alive' = FALSE
    /\ UNCHANGED <<recv, n_submitted, pc, result, elapsed, sigs_and_slots, txs,
                   last_handed, tasks, txs_sent, postgres_send, pg_chan>>
    /\ UNCHANGED svars

\* wall-clock time passes during a cycle; only elapsed < tx_send_interval
\* is ever read
Tick ==
    /\ pc = "while"
    /\ elapsed < tx_send_interval
    /\ elapsed' = elapsed + 1
    /\ UNCHANGED <<recv, senders_alive, n_submitted, pc, result, sigs_and_slots,
                   txs, last_handed, tasks, txs_sent, postgres_send, pg_chan>>
    /\ UNCHANGED svars

\* mutant: a new cycle starts only once every forward task has finished
LoopStart_AwaitTasks ==
    /\ pc = "loop"
    /\ \A t \in 1..Len(tasks) : tasks[t].state = "done"
    /\ elapsed' = 0
    /\ sigs_and_slots' = <<>>
    /\ txs' = <<>>
    /\ pc' = "while"
    /\ UNCHANGED <<recv, senders_alive, n_submitted, result, last_handed, tasks,
                   txs_sent, postgres_send, pg_chan>>
    /\ UNCHANGED svars

\* ---- the loop of execute
\* lines 121-124: a new cycle
LoopStart ==
    /\ pc = "loop"
    /\ elapsed' = 0
    /\ sigs_and_slots' = <<>>
    /\ txs' = <<>>
    /\ pc' = "while"
    /\ UNCHANGED <<recv, senders_alive, n_submitted, result, last_handed, tasks,
                   txs_sent, postgres_send, pg_chan>>
    /\ UNCHANGED svars

\* lines 126-131: the loop condition holds and try_recv yields an entry
PollOk ==
    /\ pc = "while"
    /\ WhileCond(elapsed, Len(txs))
    /\ TryRecvOutcome = "Ok"
    /\ sigs_and_slots' = Append(sigs_and_slots, <<Head(recv).sig, Head(recv).slot>>)
    /\ txs' = Append(txs, Head(recv).tx)
    /\ recv' = Tail(recv)
    /\ UNCHANGED <<senders_alive, n_submitted, pc, result, elapsed, last_handed,
                   tasks, txs_sent, postgres_send, pg_chan>>
    /\ UNCHANGED svars

\* lines 126-127, 135: the loop condition holds and the channel is empty
PollEmpty ==
    /\ pc = "while"
    /\ WhileCond(elapsed, Len(txs))
    /\ TryRecvOutcome = "Empty"
    /\ UNCHANGED vars

\* lines 126-127, 132-134: the loop condition holds, the channel is closed
PollDisconnected ==
    /\ pc = "while"
    /\ WhileCond(elapsed, Len(txs))
    /\ TryRecvOutcome = "Disconnected"
    /\ pc' = "ended"
    /\ result' = DisconnectedResult
    /\ UNCHANGED <<recv, senders_alive, n_submitted, elapsed, sigs_and_slots, txs,
                   last_handed, tasks, txs_sent, postgres_send, pg_chan>>
    /\ UNCHANGED svars

\* lines 126, 139-140: the loop condition fails, the batch goes to forward_txs
WhileExit ==
    /\ pc = "while"
    /\ ~WhileCond(elapsed, Len(txs))
    /\ last_handed' = [sigs_and_slots |-> sigs_and_slots, txs |-> txs]
    /\ tasks' = ForwardTxs(sigs_and_slots, txs, postgres_send)
    /\ pc' = "loop"
    /\ UNCHANGED <<recv, senders_alive, n_submitted, result, elapsed,
                   sigs_and_slots, txs, txs_sent, postgres_send, pg_chan>>
    /\ UNCHANGED svars

\* ------------------------------------------- the task forward_txs spawns
\* lines 76-85: the response code, 1 on Ok and 0 on Err
QuicResponse(ok) == IF ok THEN 1 ELSE 0

\* mutant: a signature already in the registry keeps its entry
RegistryAfter_KeepExisting(t, ok) ==
    IF ok
    THEN [s \in DOMAIN txs_sent \cup BatchSigs(tasks[t].sigs_and_slots) |->
             IF s \in DOMAIN txs_sent THEN txs_sent[s] ELSE TxPropsDefault(t)]
    ELSE txs_sent

\* mutant: the signatures are marked sent whatever the Forwarder answered
RegistryAfter_Always(t, ok) ==
    [s \in DOMAIN txs_sent \cup BatchSigs(tasks[t].sigs_and_slots) |->
        IF s \in BatchSigs(tasks[t].sigs_and_slots)
        THEN TxPropsDefault(t)
        ELSE txs_sent[s]]

\* lines 76-85: the registry after the match on the Forwarder's answer:
\* on Ok every signature of the batch is inserted (or overwritten) with
\* TxProps::default(), on Err the registry is not touched
RegistryAfter(t, ok) ==
    IF ok
    THEN [s \in DOMAIN txs_sent \cup BatchSigs(tasks[t].sigs_and_slots) |->
             IF s \in BatchSigs(tasks[t].sigs_and_slots)
             THEN TxPropsDefault(t)
             ELSE txs_sent[s]]
    ELSE txs_sent

\* mutant: the write records are emitted only for a batch that was sent
PostgresAfter_OnlyOnSuccess(t, ok) ==
    IF tasks[t].postgres /\ ok
    THEN pg_chan \o PostgresMsgs(tasks[t].sigs_and_slots, QuicResponse(ok))
    ELSE pg_chan

\* lines 88-102: the postgres channel after the task's sends
PostgresAfter(t, ok) ==
    IF tasks[t].postgres
    THEN pg_chan \o PostgresMsgs(tasks[t].sigs_and_slots, QuicResponse(ok))
    ELSE pg_chan

\* lines 74-103: try_send_wire_transaction_batch resolves (its only await)
\* with Ok or Err, as the Forwarder decides, then the rest of the task runs
\* to its end
ForwardTask(t, ok) ==
    /\ tasks[t].state = "sending"
    /\ txs_sent' = RegistryAfter(t, ok)
    /\ pg_chan' = PostgresAfter(t, ok)
    /\ tasks' = [tasks EXCEPT ![t].state = "done",
                              ![t].answer = IF ok THEN "Ok" ELSE "Err",
                              ![t].quic_response = QuicResponse(ok),
                              ![t].attempts = @ + 1]
    /\ UNCHANGED <<recv, senders_alive, n_submitted, pc, result, elapsed,
                   sigs_and_slots, txs, last_handed, postgres_send>>
    /\ UNCHANGED svars

\* another holder of the registry (txs_sent is pub and shared) records a
\* confirmation status for a signature that is in it
SetStatus(sig) ==
    /\ sig \in DOMAIN txs_sent
    /\ txs_sent[sig].status = "None"
    /\ txs_sent' = [txs_sent EXCEPT ![sig].status = "Some"]
    /\ UNCHANGED <<recv, senders_alive, n_submitted, pc, result, elapsed,
                   sigs_and_slots, txs, last_handed, tasks, postgres_send,
                   pg_chan>>
    /\ UNCHANGED svars

\* ====================================================================
\* PostgresBlockStore
\* ====================================================================
\* ---- program constants
PARALLEL_WRITE_SESSIONS == 4
MIN_WRITE_CHUNK_SIZE == 500

\* ---- bounds
\* number of calls of the store (write_block and
\* start_new_epoch_if_necessary together) in a run
MaxCalls == 3

\* EpochCache::get_epoch_at_slot, the Epoch Oracle: epochs are consecutive
\* runs of SLOTS_PER_EPOCH slots
SLOTS_PER_EPOCH == 10
EpochOf(slot) == slot \div SLOTS_PER_EPOCH

\* the blocks callers write: two contents for slot 10, with transaction
\* counts that give no chunk, one chunk and two chunks
Blocks ==
    { [slot |-> 10, blockhash |-> "a", block_height |-> 42, parent_slot |-> 9,
       block_time |-> 1000, previous_blockhash |-> "z", ntx |-> 501,
       commitment |-> "finalized"],
      [slot |-> 10, blockhash |-> "b", block_height |-> 43, parent_slot |-> 8,
       block_time |-> 1001, previous_blockhash |-> "y", ntx |-> 2,
       commitment |-> "confirmed"],
      [slot |-> 11, blockhash |-> "c", block_height |-> 44, parent_slot |-> 10,
       block_time |-> 1002, previous_blockhash |-> "a", ntx |-> 0,
       commitment |-> "processed"],
      [slot |-> 20, blockhash |-> "d", block_height |-> 45, parent_slot |-> 11,
       block_time |-> 1003, previous_blockhash |-> "c", ntx |-> 2,
       commitment |-> "finalized"] }

\* the epochs callers provision
Epochs == {EpochOf(b.slot) : b \in Blocks}

\* the objects start_new_epoch_if_necessary creates in a schema, in order
SchemaObjects == <<"schema", "grants", "blocks", "transactions", "fk">>

\* ---- div_ceil and the chunks of write_block
div_ceil(a, b) == (a + b - 1) \div b

Max(a, b) == IF a >= b THEN a ELSE b
Min(a, b) == IF a <= b THEN a ELSE b

\* a chunk size that rounds the quotient down
chunk_size_Floor(n, sessions, min_chunk) == Max(n \div sessions, min_chunk)

\* a chunk size that ignores the minimum chunk size
chunk_size_NoFloor(n, sessions, min_chunk) == Max(div_ceil(n, sessions), 1)

\* lines 271-272: div_ceil(transactions.len(), write_sessions.len())
\* .max(MIN_WRITE_CHUNK_SIZE), for n transactions, a pool of that many
\* sessions and that minimum chunk size
chunk_size(n, sessions, min_chunk) == Max(div_ceil(n, sessions), min_chunk)

\* line 273: slice::chunks(size): consecutive chunks of that many
\* transactions, the last one shorter, none for an empty list; each chunk
\* is <<first, last>> (1-based positions)
slice_chunks(n, size) ==
    [i \in 1..((n + size - 1) \div size) |->
        <<(i - 1) * size + 1, Min(i * size, n)>>]

\* line 271-272: the chunk size for n transactions
ChunkSize(n) == chunk_size(n, PARALLEL_WRITE_SESSIONS, MIN_WRITE_CHUNK_SIZE)

\* line 273: the chunks of n transactions
Chunks(n) == slice_chunks(n, ChunkSize(n))

\* ---- the fan-out of write_block alone (lines 270-282)
\* bounds: the longest transaction list and the largest session pool
MaxTx == 2100
MaxSessions == 5

\* the minimum chunk sizes: the program's and two small ones
MinChunkSizes == {1, 3, MIN_WRITE_CHUNK_SIZE}

\* the calls: a transaction count, a pool size and a minimum chunk size
FanOutInputs ==
    {[state |-> "called", n |-> n, sessions |-> p, min_chunk |-> m,
      chunks |-> <<>>, session_of |-> <<>>, outcome |-> "none"] :
        n \in 0..MaxTx, p \in 1..MaxSessions, m \in MinChunkSizes}

\* lines 270-282: the chunks are computed; the assertion panics when there
\* are more chunks than sessions; otherwise chunk i (counted from 0 in the
\* code, from 1 here) gets write_sessions[i]
FanOut ==
    /\ fanout.state = "called"
    /\ LET chunks == slice_chunks(fanout.n,
                         chunk_size(fanout.n, fanout.sessions, fanout.min_chunk))
       IN  fanout' = IF Len(chunks) > fanout.sessions
                     THEN [fanout EXCEPT !.state = "done", !.chunks = chunks,
                                         !.outcome = "Panic"]
                     ELSE [fanout EXCEPT !.state = "done", !.chunks = chunks,
                                         !.session_of = [i \in 1..Len(chunks) |-> i],
                                         !.outcome = "Started"]
    /\ UNCHANGED <<schemas, block_rows, tx_rows, prov, wr, prep>>
    /\ UNCHANGED dvars

\* ---- the store
\* PostgresBlock::from and the columns PostgresBlock::save writes: the row
\* of a block in the blocks table of epoch e (the transactions and the
\* commitment level of the block are not columns of it)
RowOf(e, b) ==
    [epoch |-> e, slot |-> b.slot, blockhash |-> b.blockhash,
     block_height |-> b.block_height, parent_slot |-> b.parent_slot,
     block_time |-> b.block_time, previous_blockhash |-> b.previous_blockhash]

\* the row of the blocks table of epoch e with this slot exists
HasBlockRow(e, slot) == \E r \in block_rows : r.epoch = e /\ r.slot = slot

\* PostgresBlock::save: INSERT ... ON CONFLICT DO NOTHING; TRUE iff a row
\* was inserted
SaveInserts(e, slot) == ~HasBlockRow(e, slot)

\* the blocks table after PostgresBlock::save
BlockRowsAfterSave(e, b) ==
    IF SaveInserts(e, b.slot)
    THEN block_rows \cup {RowOf(e, b)}
    ELSE block_rows

\* mutant: the transactions are inserted whether or not the row is new
SkipTransactions_Never(inserted) == FALSE

\* lines 262-265: an existing row ends the call before the transactions
SkipTransactions(inserted) == ~inserted

\* lines 283-286: join_all, then unwrap of every result: the first Err
\* panics
JoinOutcome(chunks) ==
    IF \E i \in 1..Len(chunks) : chunks[i] = "err" THEN "Panic" ELSE "Ok"

\* ---- start_new_epoch_if_necessary (lines 92-147)
\* a caller starts the call for an epoch
StartNewEpochCall(e) ==
    /\ Len(prov) + Len(wr) < MaxCalls
    /\ prov' = Append(prov, [epoch |-> e, pc |-> 1, outcome |-> "none"])
    /\ UNCHANGED <<schemas, block_rows, tx_rows, wr>>
    /\ UNCHANGED <<prep, fanout>>
    /\ UNCHANGED dvars

\* CREATE SCHEMA where an existing schema is reported as newly created
CreateSchema_DuplicateIsCreated(k, ok) ==
    /\ prov[k].pc = 1
    /\ IF ~ok
       THEN /\ prov' = [prov EXCEPT ![k].pc = 0, ![k].outcome = "Err"]
            /\ UNCHANGED schemas
       ELSE IF "schema" \in schemas[prov[k].epoch]
       THEN /\ prov' = [prov EXCEPT ![k].pc = 0, ![k].outcome = "Ok(true)"]
            /\ UNCHANGED schemas
       ELSE /\ prov' = [prov EXCEPT ![k].pc = 2]
            /\ schemas' = [schemas EXCEPT ![prov[k].epoch] = @ \cup {"schema"}]
    /\ UNCHANGED <<block_rows, tx_rows, wr>>
    /\ UNCHANGED <<prep, fanout>>
    /\ UNCHANGED dvars

\* lines 97-115: CREATE SCHEMA; DUPLICATE_SCHEMA returns Ok(false), any
\* other error is returned
CreateSchema(k, ok) ==
    /\ prov[k].pc = 1
    /\ IF ~ok
       THEN /\ prov' = [prov EXCEPT ![k].pc = 0, ![k].outcome = "Err"]
            /\ UNCHANGED schemas
       ELSE IF "schema" \in schemas[prov[k].epoch]
       THEN /\ prov' = [prov EXCEPT ![k].pc = 0, ![k].outcome = "Ok(false)"]
            /\ UNCHANGED schemas
       ELSE /\ prov' = [prov EXCEPT ![k].pc = 2]
            /\ schemas' = [schemas EXCEPT ![prov[k].epoch] = @ \cup {"schema"}]
    /\ UNCHANGED <<block_rows, tx_rows, wr>>
    /\ UNCHANGED <<prep, fanout>>
    /\ UNCHANGED dvars

\* lines 117-146: the grants, the two tables and the foreign key, one
\* statement each; an error is returned at once, the last success returns
\* Ok(true)
CreateObject(k, ok) ==
    /\ prov[k].pc \in 2..Len(SchemaObjects)
    /\ IF ~ok
       THEN /\ prov' = [prov EXCEPT ![k].pc = 0, ![k].outcome = "Err"]
            /\ UNCHANGED schemas
       ELSE /\ schemas' = [schemas EXCEPT
                             ![prov[k].epoch] = @ \cup {SchemaObjects[prov[k].pc]}]
            /\ prov' = IF prov[k].pc = Len(SchemaObjects)
                       THEN [prov EXCEPT ![k].pc = 0, ![k].outcome = "Ok(true)"]
                       ELSE [prov EXCEPT ![k].pc = @ + 1]
    /\ UNCHANGED <<block_rows, tx_rows, wr>>
    /\ UNCHANGED <<prep, fanout>>
    /\ UNCHANGED dvars

\* ---- write_block (lines 239-301)
\* lines 239-255: a caller starts the call for a block
WriteBlockCall(b) ==
    /\ Len(prov) + Len(wr) < MaxCalls
    /\ wr' = Append(wr, [block |-> b, epoch |-> EpochOf(b.slot), pc |-> "save",
                         inserted |-> "none", chunks |-> <<>>,
                         outcome |-> "none"])
    /\ UNCHANGED <<schemas, block_rows, tx_rows, prov>>
    /\ UNCHANGED <<prep, fanout>>
    /\ UNCHANGED dvars

\* a write that starts the chunk inserts without saving the block row
SaveBlock_ChunksFirst(c, dbok) ==
    /\ wr[c].pc = "save"
    /\ IF ~dbok \/ "blocks" \notin schemas[wr[c].epoch]
       THEN wr' = [wr EXCEPT ![c].pc = "done", ![c].inserted = "failed",
                             ![c].outcome = "Err"]
       ELSE wr' = [wr EXCEPT ![c].pc = "join",
                             ![c].chunks = [i \in 1..Len(Chunks(wr[c].block.ntx))
                                              |-> "running"]]
    /\ UNCHANGED <<schemas, block_rows, tx_rows, prov>>
    /\ UNCHANGED <<prep, fanout>>
    /\ UNCHANGED dvars

\* lines 258-282: the block row is saved on write session 0; an error is
\* returned; an existing row returns Ok; a new row starts one insert per
\* chunk (the assertion on the number of chunks panics)
SaveBlock(c, dbok) ==
    /\ wr[c].pc = "save"
    /\ IF ~dbok \/ "blocks" \notin schemas[wr[c].epoch]
       THEN /\ wr' = [wr EXCEPT ![c].pc = "done", ![c].inserted = "failed",
                                ![c].outcome = "Err"]
            /\ UNCHANGED block_rows
       ELSE LET inserted == SaveInserts(wr[c].epoch, wr[c].block.slot)
                chunks == Chunks(wr[c].block.ntx)
            IN  /\ block_rows' = BlockRowsAfterSave(wr[c].epoch, wr[c].block)
                /\ wr' = IF SkipTransactions(inserted)
                         THEN [wr EXCEPT ![c].pc = "done",
                                         ![c].inserted = "no",
                                         ![c].outcome = "Ok"]
                         ELSE IF Len(chunks) > PARALLEL_WRITE_SESSIONS
                         THEN [wr EXCEPT ![c].pc = "done",
                                         ![c].inserted = IF inserted THEN "yes" ELSE "no",
                                         ![c].outcome = "Panic"]
                         ELSE [wr EXCEPT ![c].pc = "join",
                                         ![c].inserted = IF inserted THEN "yes" ELSE "no",
                                         ![c].chunks = [i \in 1..Len(chunks) |-> "running"]]
    /\ UNCHANGED <<schemas, tx_rows, prov>>
    /\ UNCHANGED <<prep, fanout>>
    /\ UNCHANGED dvars

\* lines 278-283: save_transaction_copyin of chunk i on write session i
\* completes: the chunk's rows are in the transactions table, or it failed
\* and none of them is
ChunkInsert(c, i, dbok) ==
    /\ wr[c].pc = "join"
    /\ i \in 1..Len(wr[c].chunks)
    /\ wr[c].chunks[i] = "running"
    /\ IF dbok /\ "transactions" \in schemas[wr[c].epoch]
       THEN /\ tx_rows' = tx_rows \cup
                  {[epoch |-> wr[c].epoch, slot |-> wr[c].block.slot,
                    range |-> Chunks(wr[c].block.ntx)[i], by |-> c]}
            /\ wr' = [wr EXCEPT ![c].chunks[i] = "ok"]
       ELSE /\ wr' = [wr EXCEPT ![c].chunks[i] = "err"]
            /\ UNCHANGED tx_rows
    /\ UNCHANGED <<schemas, block_rows, prov>>
    /\ UNCHANGED <<prep, fanout>>
    /\ UNCHANGED dvars

\* lines 283-300: every chunk has completed; the results are unwrapped
JoinAll(c) ==
    /\ wr[c].pc = "join"
    /\ \A i \in 1..Len(wr[c].chunks) : wr[c].chunks[i] # "running"
    /\ wr' = [wr EXCEPT ![c].pc = "done", ![c].outcome = JoinOutcome(wr[c].chunks)]
    /\ UNCHANGED <<schemas, block_rows, tx_rows, prov>>
    /\ UNCHANGED <<prep, fanout>>
    /\ UNCHANGED dvars

\* ---- prepare_epoch_schema (lines 341-348)
\* number of calls of prepare_epoch_schema in a run
MaxPrepare == 2

\* EpochRef::get_next_epoch: the immediate successor
get_next_epoch(e) == e + 1

\* the slots callers prepare: those whose epoch and next epoch are epochs
\* of the model
PrepareSlots ==
    {b.slot : b \in {x \in Blocks : get_next_epoch(EpochOf(x.slot)) \in Epochs}}

\* created=true of a returned call of start_new_epoch_if_necessary
Created(k) == prov[k].outcome = "Ok(true)"

\* a result that is true only when both partitions were created
PrepareResult_Both(created_current, created_next) ==
    IF created_current /\ created_next THEN "Ok(true)" ELSE "Ok(false)"

\* line 347: Ok(created_current || created_next)
PrepareResult(created_current, created_next) ==
    IF created_current \/ created_next THEN "Ok(true)" ELSE "Ok(false)"

\* lines 341-344: a caller starts the call for a slot; it calls
\* start_new_epoch_if_necessary for the epoch of the slot
PrepareEpochSchemaCall(slot) ==
    /\ Len(prep) < MaxPrepare
    /\ prov' = Append(prov, [epoch |-> EpochOf(slot), pc |-> 1,
                             outcome |-> "none"])
    /\ prep' = Append(prep, [slot |-> slot, pc |-> "current",
                             current_call |-> Len(prov) + 1,
                             next_call |-> 0, outcome |-> "none"])
    /\ UNCHANGED <<schemas, block_rows, tx_rows, wr, fanout>>
    /\ UNCHANGED dvars

\* lines 344-346: the first call returned; its error is returned by `?`,
\* otherwise start_new_epoch_if_necessary is called for the next epoch
PrepareNext(p) ==
    /\ prep[p].pc = "current"
    /\ prov[prep[p].current_call].pc = 0
    /\ IF prov[prep[p].current_call].outcome = "Err"
       THEN /\ prep' = [prep EXCEPT ![p].pc = "done", ![p].outcome = "Err"]
            /\ UNCHANGED prov
       ELSE /\ prov' = Append(prov,
                         [epoch |-> get_next_epoch(EpochOf(prep[p].slot)),
                          pc |-> 1, outcome |-> "none"])
            /\ prep' = [prep EXCEPT ![p].pc = "next",
                                    ![p].next_call = Len(prov) + 1]
    /\ UNCHANGED <<schemas, block_rows, tx_rows, wr, fanout>>
    /\ UNCHANGED dvars

\* lines 346-347: the second call returned; its error is returned by `?`,
\* otherwise the result is Ok(created_current || created_next)
PrepareReturn(p) ==
    /\ prep[p].pc = "next"
    /\ prov[prep[p].next_call].pc = 0
    /\ prep' = [prep EXCEPT
                  ![p].pc = "done",
                  ![p].outcome =
                      IF prov[prep[p].next_call].outcome = "Err"
                      THEN "Err"
                      ELSE PrepareResult(Created(prep[p].current_call),
                                         Created(prep[p].next_call))]
    /\ UNCHANGED <<schemas, block_rows, tx_rows, prov, wr, fanout>>
    /\ UNCHANGED dvars

\* ---- query (lines 166-223)
\* PostgresBlock::into_produced_block: the block of a row, with the
\* transactions and the commitment level it is given
into_produced_block(row, transactions, commitment) ==
    [slot |-> row.slot, blockhash |-> row.blockhash,
     block_height |-> row.block_height, parent_slot |-> row.parent_slot,
     block_time |-> row.block_time,
     previous_blockhash |-> row.previous_blockhash,
     transactions |-> transactions, commitment |-> commitment]

\* the value of a call that returns no block
NoBlock ==
    [slot |-> 0, blockhash |-> "", block_height |-> 0, parent_slot |-> 0,
     block_time |-> 0, previous_blockhash |-> "", transactions |-> <<>>,
     commitment |-> ""]

\* a query that returns some row of the partition, not the row of the slot
query_AnyRowOfEpoch(slot) ==
    LET epoch == EpochOf(slot)
        block_row == {r \in block_rows : r.epoch = epoch}
    IN  IF epoch \notin DOMAIN schemas \/ "blocks" \notin schemas[epoch]
        THEN [kind |-> "Panic", block |-> NoBlock]
        ELSE IF block_row = {}
        THEN [kind |-> "Err", block |-> NoBlock]
        ELSE [kind |-> "Ok",
              block |-> into_produced_block(
                            CHOOSE r \in block_row :
                                \A q \in block_row : r.slot >= q.slot,
                            <<>>, "confirmed")]

\* the row of the slot is selected from the blocks table of its epoch; a
\* failing statement (no such table) panics in unwrap (lines 170-176); no
\* row is the error "Block .. not found" (lines 178-180); a row becomes a
\* block with no transaction and the commitment level confirmed (lines
\* 182-211)
query(slot) ==
    LET epoch == EpochOf(slot)
        block_row == {r \in block_rows : r.epoch = epoch /\ r.slot = slot}
    IN  IF epoch \notin DOMAIN schemas \/ "blocks" \notin schemas[epoch]
        THEN [kind |-> "Panic", block |-> NoBlock]
        ELSE IF block_row = {}
        THEN [kind |-> "Err", block |-> NoBlock]
        ELSE [kind |-> "Ok",
              block |-> into_produced_block(CHOOSE r \in block_row : TRUE,
                                            <<>>, "confirmed")]

\* the objects of a fully provisioned partition
AllSchemaObjects == {SchemaObjects[i] : i \in 1..Len(SchemaObjects)}

\* ---- get_slot_range_by_epoch (lines 389-482)
\* lines 391-417: the epochs that have a schema
EpochSchemas == {e \in Epochs : "schema" \in schemas[e]}

\* lines 419-428: the rows of the UNION ALL over the blocks table of every
\* epoch schema
AllSlots == {[slot |-> r.slot, epoch |-> r.epoch] : r \in block_rows}

SetMin(S) == CHOOSE x \in S : \A y \in S : x <= y
SetMax(S) == CHOOSE x \in S : \A y \in S : x >= y

\* GROUP BY with the minimum and the maximum exchanged
RowsMinMax_Swapped ==
    LET grouped == {r.epoch : r \in AllSlots}
        slotsOf(e) == {r.slot : r \in {q \in AllSlots : q.epoch = e}}
    IN  [e \in grouped |-> [slot_min |-> SetMax(slotsOf(e)),
                            slot_max |-> SetMin(slotsOf(e))]]

\* lines 430-440: GROUP BY epoch with min(slot) and max(slot): one row for
\* each epoch that has a slot
RowsMinMax ==
    LET grouped == {r.epoch : r \in AllSlots}
        slotsOf(e) == {r.slot : r \in {q \in AllSlots : q.epoch = e}}
    IN  [e \in grouped |-> [slot_min |-> SetMin(slotsOf(e)),
                            slot_max |-> SetMax(slotsOf(e))]]

\* the whole call: no schema gives the empty map (lines 415-417); the query
\* over a schema that has no blocks table fails and its unwrap panics
\* (line 440); otherwise one range per row (lines 442-472)
get_slot_range_by_epoch ==
    IF EpochSchemas = {}
    THEN [kind |-> "Ok", ranges |-> <<>>]
    ELSE IF \E e \in EpochSchemas : "blocks" \notin schemas[e]
    THEN [kind |-> "Panic", ranges |-> <<>>]
    ELSE [kind |-> "Ok",
          ranges |-> [e \in DOMAIN RowsMinMax |->
                        [start |-> RowsMinMax[e].slot_min,
                         end |-> RowsMinMax[e].slot_max]]]

\* ---- get_slot_range (lines 369-387): the minimum of the starts and the
\* maximum of the ends; both expect a non-empty map and panic without one
get_slot_range ==
    LET by_epoch == get_slot_range_by_epoch
        rows_minmax == {by_epoch.ranges[e] : e \in DOMAIN by_epoch.ranges}
    IN  IF by_epoch.kind = "Panic" \/ rows_minmax = {}
        THEN [kind |-> "Panic", start |-> 0, end |-> 0]
        ELSE [kind |-> "Ok",
              start |-> SetMin({r.start : r \in rows_minmax}),
              end |-> SetMax({r.end : r \in rows_minmax})]

\* RangeInclusive::contains
Contains(range, slot) == range.start <= slot /\ slot <= range.end

\* ---- is_block_in_range (lines 156-164): the Option of the epoch's range
\* is mapped through contains and then only tested for being Some
is_block_in_range(slot) ==
    LET epoch == EpochOf(slot)
        by_epoch == get_slot_range_by_epoch
        matching_range == IF epoch \in DOMAIN by_epoch.ranges
                          THEN {by_epoch.ranges[epoch]} ELSE {}
        mapped == {<<Contains(range, slot)>> : range \in matching_range}
    IN  [kind |-> by_epoch.kind,
         value |-> by_epoch.kind = "Ok" /\ mapped # {}]

\* the slots callers ask about
QuerySlots == {9, 10, 11, 15, 20, 25}

\* ====================================================================
\* Specifications
\* ====================================================================
\* TxSender::new and the arguments of execute
InitTxSender ==
    /\ recv = <<>>
    /\ senders_alive = TRUE
    /\ n_submitted = 0
    /\ pc = "loop"
    /\ result = "running"
    /\ elapsed = 0
    /\ sigs_and_slots = <<>>
    /\ txs = <<>>
    /\ last_handed = [sigs_and_slots |-> <<>>, txs |-> <<>>]
    /\ tasks = <<>>
    /\ txs_sent = [s \in {} |-> TxPropsDefault(0)]
    /\ pg_chan = <<>>

\* PostgresBlockStore::new on an empty database: no schema, no call
InitBlockStore ==
    /\ schemas = [e \in Epochs |-> {}]
    /\ block_rows = {}
    /\ tx_rows = {}
    /\ prov = <<>>
    /\ wr = <<>>
    /\ prep = <<>>
    /\ fanout = [state |-> "idle"]

InitDispatch ==
    /\ InitTxSender
    /\ postgres_send \in BOOLEAN
    /\ InitBlockStore

NextDispatch ==
    \/ \E sig \in Sigs, slot \in RecentSlots : Submit(sig, slot)
    \/ DropSenders
    \/ Tick
    \/ LoopStart
    \/ PollOk
    \/ PollEmpty
    \/ PollDisconnected
    \/ WhileExit
    \/ \E t \in 1..Len(tasks), ok \in BOOLEAN : ForwardTask(t, ok)
    \/ \E sig \in Sigs : SetStatus(sig)

SpecDispatch == InitDispatch /\ [][NextDispatch]_vars

\* the initial states of the liveness checks: no postgres handle
InitLoop == InitDispatch /\ ~postgres_send

\* The loop is a running task and the clock advances (weak fairness). A
\* cycle's first evaluation of the loop condition follows the reading of the
\* clock at once, so the polls are not preempted for a whole flush interval
\* in every cycle (strong fairness of the polls that change the state).
\* Nothing is assumed of the clients, of the forward tasks or of the
\* Forwarder. The loop never reads the postgres handle, so the liveness of
\* the loop is checked with none configured.
FairDispatch ==
    /\ InitLoop
    /\ [][NextDispatch]_vars
    /\ WF_vars(Tick)
    /\ WF_vars(LoopStart)
    /\ WF_vars(WhileExit)
    /\ SF_vars(PollOk)
    /\ SF_vars(PollDisconnected)

InitStore ==
    /\ InitTxSender
    /\ postgres_send = FALSE
    /\ InitBlockStore

NextStore ==
    \/ \E e \in Epochs : StartNewEpochCall(e)
    \/ \E k \in 1..Len(prov), ok \in BOOLEAN : CreateSchema(k, ok)
    \/ \E k \in 1..Len(prov), ok \in BOOLEAN : CreateObject(k, ok)
    \/ \E b \in Blocks : WriteBlockCall(b)
    \/ \E c \in 1..Len(wr), dbok \in BOOLEAN : SaveBlock(c, dbok)
    \/ \E c \in 1..Len(wr), i \in 1..PARALLEL_WRITE_SESSIONS, dbok \in BOOLEAN :
          ChunkInsert(c, i, dbok)
    \/ \E c \in 1..Len(wr) : JoinAll(c)

SpecStore == InitStore /\ [][NextStore]_vars

\* the store over a database in which an earlier run provisioned the
\* partition of the first epoch and wrote the block of slot 11, which has
\* no transaction
InitProvisioned ==
    /\ InitTxSender
    /\ postgres_send = FALSE
    /\ schemas = [e \in Epochs |->
                    IF e = EpochOf(11) THEN AllSchemaObjects ELSE {}]
    /\ block_rows = {RowOf(EpochOf(b.slot), b) : b \in {x \in Blocks : x.slot = 11}}
    /\ tx_rows = {}
    /\ prov = <<>>
    /\ wr = <<>>
    /\ prep = <<>>
    /\ fanout = [state |-> "idle"]

SpecProvisioned == InitProvisioned /\ [][NextStore]_vars

\* provisioning alone: concurrent callers of prepare_epoch_schema on an
\* empty database
NextPrepare ==
    \/ \E slot \in PrepareSlots : PrepareEpochSchemaCall(slot)
    \/ \E p \in 1..Len(prep) : PrepareNext(p)
    \/ \E p \in 1..Len(prep) : PrepareReturn(p)
    \/ \E k \in 1..Len(prov), ok \in BOOLEAN : CreateSchema(k, ok)
    \/ \E k \in 1..Len(prov), ok \in BOOLEAN : CreateObject(k, ok)

SpecPrepare == InitStore /\ [][NextPrepare]_vars

\* the fan-out computation for every input within the bounds
InitFanOut ==
    /\ InitTxSender
    /\ postgres_send = FALSE
    /\ schemas = [e \in Epochs |-> {}]
    /\ block_rows = {}
    /\ tx_rows = {}
    /\ prov = <<>>
    /\ wr = <<>>
    /\ prep = <<>>
    /\ fanout \in FanOutInputs

NextFanOut == FanOut

SpecFanOut == InitFanOut /\ [][NextFanOut]_vars

\* ====================================================================
\* Properties of the Dispatch Loop and the Forwarder Adapter
\* ====================================================================
\* a step of the task spawned by execute
Execute == LoopStart \/ PollOk \/ PollEmpty \/ PollDisconnected \/ WhileExit

\* payload k sits in the accumulator of the running cycle
InAccumulator(k) == pc = "while" /\ k \in SeqToSet(txs)

\* payload k was handed to forward_txs in some batch
Handed(k) == \E t \in 1..Len(tasks) : k \in SeqToSet(tasks[t].txs)

\* forward task t finishes in this step
Finishes(t) == tasks[t].state = "sending" /\ tasks'[t].state = "done"

\* C1: flush-on-full: whenever the accumulator holds exactly tx_batch_size
\* entries, the loop can hand the batch to forward_txs at once (its next
\* step is the hand-off, whatever the elapsed time and the channel hold).
C1_FlushOnFull ==
    (pc = "while" /\ Len(txs) = tx_batch_size) => ENABLED WhileExit

\* C1: the case of the claim: a full accumulator, an empty channel that
\* stays connected, and time left in the flush interval
C1_FullEarly ==
    /\ pc = "while"
    /\ Len(txs) = tx_batch_size
    /\ recv = <<>>
    /\ senders_alive
    /\ elapsed < tx_send_interval

\* C2: liveness: while the channel stays connected every entry taken from
\* the channel is eventually handed to forward_txs in some batch.
C2_EveryEntryHanded ==
    \A k \in 1..MaxSubmit :
        InAccumulator(k) ~> (Handed(k) \/ ~senders_alive)

\* C3: flush-on-timeout: a step of the loop taken when the flush interval
\* has elapsed and the accumulator holds k # tx_batch_size entries ends the
\* cycle and hands exactly those k entries to forward_txs.
C3_FlushOnTimeout ==
    [][(/\ pc = "while"
        /\ elapsed >= tx_send_interval
        /\ Len(txs) # tx_batch_size
        /\ Execute)
       => (/\ pc' = "loop"
           /\ last_handed' = [sigs_and_slots |-> sigs_and_slots, txs |-> txs]
           /\ recv' = recv
           /\ IF txs = <<>>
              THEN tasks' = tasks
              ELSE /\ Len(tasks') = Len(tasks) + 1
                   /\ tasks'[Len(tasks')].txs = txs
                   /\ tasks'[Len(tasks')].sigs_and_slots = sigs_and_slots)]_vars

\* C3: a cycle ended on the timeout with one entry (fewer than a batch)
C3_TimeoutBatchOfOne ==
    /\ pc = "loop"
    /\ elapsed >= tx_send_interval
    /\ Len(last_handed.txs) = 1
    /\ Len(tasks) >= 1
    /\ tasks[Len(tasks)].txs = last_handed.txs

\* C4: disconnection is fatal: once every sender is gone and the channel
\* is drained the loop eventually stops with an error; it never ends with
\* success, and a stopped loop stays stopped.
C4_DisconnectFatal ==
    /\ (~senders_alive /\ recv = <<>>) ~> (pc = "ended" /\ result = "Err")
    /\ [](result # "Ok")
    /\ [](pc = "ended" => result = "Err" /\ ~senders_alive /\ recv = <<>>)
    /\ [][pc = "ended" => pc' = "ended"]_vars

\* C4: the loop stopped on the disconnection, after it forwarded a batch
C4_StoppedWithError ==
    /\ pc = "ended"
    /\ result = "Err"
    /\ ~senders_alive
    /\ Len(tasks) >= 1

\* C5: forward success: when a forward task finishes after the Forwarder
\* answered Ok, every signature of its batch is a key of the registry with
\* status None (inserted or overwritten), and response code 1 is recorded.
C5_ForwardSuccess ==
    [][\A t \in 1..Len(tasks) :
          (Finishes(t) /\ tasks'[t].answer = "Ok")
          => (/\ \A s \in BatchSigs(tasks[t].sigs_and_slots) :
                    /\ s \in DOMAIN txs_sent'
                    /\ txs_sent'[s].status = "None"
              /\ \A s \in DOMAIN txs_sent \ BatchSigs(tasks[t].sigs_and_slots) :
                    /\ s \in DOMAIN txs_sent'
                    /\ txs_sent'[s] = txs_sent[s]
              /\ tasks'[t].quic_response = 1)]_vars

\* C5: a successful task overwrote the entry an earlier successful task
\* had inserted for the same signature
C5_Overwritten ==
    \E t1, t2 \in 1..Len(tasks) : \E s \in Sigs :
        /\ t1 # t2
        /\ tasks[t1].answer = "Ok"
        /\ tasks[t2].answer = "Ok"
        /\ s \in BatchSigs(tasks[t1].sigs_and_slots)
        /\ s \in BatchSigs(tasks[t2].sigs_and_slots)
        /\ s \in DOMAIN txs_sent
        /\ txs_sent[s].sent_at = t2
        /\ txs_sent[s].status = "None"
        /\ tasks[t2].quic_response = 1

C7_WriteRecords ==
    /\ [][\A t \in 1..Len(tasks) :
             (Finishes(t) /\ postgres_send)
             => LET batch == tasks[t].sigs_and_slots
                    code == IF tasks'[t].answer = "Ok" THEN 1 ELSE 0
                IN  /\ Len(pg_chan') = Len(pg_chan) + Len(batch)
                    /\ SubSeq(pg_chan', 1, Len(pg_chan)) = pg_chan
                    /\ \A i \in 1..Len(batch) :
                          /\ pg_chan'[Len(pg_chan) + i].signature = batch[i][1]
                          /\ pg_chan'[Len(pg_chan) + i].recent_slot = batch[i][2]
                          /\ pg_chan'[Len(pg_chan) + i].quic_response = code]_vars
    /\ [][pg_chan' # pg_chan
          => \E t \in 1..Len(tasks) : Finishes(t)]_vars

\* C7: a batch of three transactions with two different signatures failed
\* and the sink holds its three records, in batch order, with code 0
C7_RecordsOfFailedBatch ==
    /\ postgres_send
    /\ Len(pg_chan) = 3
    /\ \E t \in 1..Len(tasks) :
          /\ tasks[t].answer = "Err"
          /\ Len(tasks[t].txs) = 3
          /\ tasks[t].sigs_and_slots[1][1] # tasks[t].sigs_and_slots[2][1]
          /\ \A i \in 1..3 :
                /\ pg_chan[i].signature = tasks[t].sigs_and_slots[i][1]
                /\ pg_chan[i].quic_response = 0

\* C8: no backpressure: as long as the loop has not stopped it can take a
\* step, whatever the state of the forward tasks.
C8_NoBackpressure ==
    pc # "ended" => ENABLED Execute

\* C8: two forward tasks are in flight while the next cycle accumulates
C8_TasksInFlight ==
    /\ pc = "while"
    /\ txs # <<>>
    /\ Len(tasks) >= 2
    /\ \A t \in 1..Len(tasks) : tasks[t].state = "sending"

\* ====================================================================
\* Properties of the block store
\* ====================================================================
\* the transaction rows write_block call c inserted
TxRowsBy(c) == {r \in tx_rows : r.by = c}

\* C9: block dedup: a partition holds at most one row per slot and exactly
\* one once a save for the slot has succeeded; the row is the one of the
\* call that inserted it and is never replaced; a call that finds the row
\* present returns Ok and inserts no transaction, so the transaction rows
\* of a slot all come from the one call that inserted its block row.
C9_BlockDedup ==
    /\ [](\A r1, r2 \in block_rows :
             (r1.epoch = r2.epoch /\ r1.slot = r2.slot) => r1 = r2)
    /\ [][block_rows \subseteq block_rows']_vars
    /\ [](\A c \in 1..Len(wr) :
             /\ wr[c].inserted \in {"yes", "no"}
                => HasBlockRow(wr[c].epoch, wr[c].block.slot)
             /\ wr[c].inserted = "yes"
                => RowOf(wr[c].epoch, wr[c].block) \in block_rows
             /\ wr[c].inserted = "no"
                => /\ wr[c].pc = "done"
                   /\ wr[c].outcome = "Ok"
                   /\ wr[c].chunks = <<>>
             /\ wr[c].inserted # "yes" => TxRowsBy(c) = {})
    /\ [](\A r1, r2 \in tx_rows :
             (r1.epoch = r2.epoch /\ r1.slot = r2.slot) => r1.by = r2.by)

\* C9: slot 10 was written twice with different contents: the first call
\* inserted the row and its transactions, the second found the row,
\* returned Ok and inserted nothing; the row has the first content
C9_SecondWriteSkipped ==
    \E c1, c2 \in 1..Len(wr) :
        /\ c1 # c2
        /\ wr[c1].block.slot = wr[c2].block.slot
        /\ wr[c1].block.blockhash # wr[c2].block.blockhash
        /\ wr[c1].inserted = "yes"
        /\ wr[c1].outcome = "Ok"
        /\ TxRowsBy(c1) # {}
        /\ wr[c2].inserted = "no"
        /\ wr[c2].outcome = "Ok"
        /\ wr[c2].block.ntx > 0
        /\ TxRowsBy(c2) = {}
        /\ {r.blockhash : r \in {x \in block_rows : x.slot = wr[c1].block.slot}}
              = {wr[c1].block.blockhash}

\* C10: chunk failure is surfaced: a write_block call one of whose chunk
\* inserts failed ends with an error result (Err) for its caller.
C10_ChunkFailureIsError ==
    \A c \in 1..Len(wr) :
        (wr[c].pc = "done" /\ \E i \in 1..Len(wr[c].chunks) : wr[c].chunks[i] = "err")
        => wr[c].outcome = "Err"

\* C10: a call with two chunks ended after one chunk failed and the other
\* was inserted; its block row is in the store
C10_PartialBlock ==
    \E c \in 1..Len(wr) :
        /\ wr[c].pc = "done"
        /\ Len(wr[c].chunks) = 2
        /\ \E i, j \in 1..2 : wr[c].chunks[i] = "err" /\ wr[c].chunks[j] = "ok"
        /\ HasBlockRow(wr[c].epoch, wr[c].block.slot)
        /\ TxRowsBy(c) # {}

\* --------------------------------------------------------------------
\* call k of start_new_epoch_if_necessary takes a step
ProvStep(k) == k \in 1..Len(prov) /\ prov'[k] # prov[k]

\* C11: a call of start_new_epoch_if_necessary that finds no schema for its
\* epoch creates it and can only return created=true, and when it does the
\* schema, the grants, the blocks table, the transactions table and the
\* foreign key are in place; a call that finds the schema returns
\* created=false and changes nothing in the store; at most one call per
\* epoch returns created=true
C11_IdempotentCreation ==
    [][\A k \in 1..Len(prov) :
         LET e == prov[k].epoch IN
         /\ (ProvStep(k) /\ prov[k].pc = 1 /\ "schema" \notin schemas[e])
               => /\ prov'[k].outcome \in {"none", "Err"}
                  /\ (prov'[k].outcome = "none" => "schema" \in schemas'[e])
         /\ (ProvStep(k) /\ prov'[k].outcome = "Ok(true)")
               => /\ schemas'[e] = AllSchemaObjects
                  /\ \A j \in 1..Len(prov) :
                        (j # k /\ prov[j].epoch = e)
                            => prov'[j].outcome # "Ok(true)"
         /\ (ProvStep(k) /\ prov[k].pc = 1 /\ "schema" \in schemas[e])
               => /\ prov'[k].outcome \in {"Ok(false)", "Err"}
                  /\ UNCHANGED <<schemas, block_rows, tx_rows>>
      ]_vars

\* a first call created the partition and a second call for the same epoch
\* returned created=false
C11_CreatedThenExisting ==
    \E i, j \in 1..Len(prov) :
        /\ i < j
        /\ prov[i].epoch = prov[j].epoch
        /\ prov[i].outcome = "Ok(true)"
        /\ prov[j].outcome = "Ok(false)"
        /\ schemas[prov[i].epoch] = AllSchemaObjects

\* --------------------------------------------------------------------
\* the tables and the constraint a write into a partition needs
WriteObjects == {"blocks", "transactions", "fk"}

\* C12: whenever a call of start_new_epoch_if_necessary has returned
\* success, created=true or created=false, the blocks table, the
\* transactions table and the foreign key of its epoch exist
C12_SuccessMeansTables ==
    \A k \in 1..Len(prov) :
        prov[k].outcome \in {"Ok(true)", "Ok(false)"}
            => WriteObjects \subseteq schemas[prov[k].epoch]

\* a call failed after CREATE SCHEMA, and a later call for the same epoch
\* returned created=false although no table of the epoch exists
C12_ExistingWithoutTables ==
    \E i, j \in 1..Len(prov) :
        /\ i < j
        /\ prov[i].epoch = prov[j].epoch
        /\ prov[i].outcome = "Err"
        /\ prov[j].outcome = "Ok(false)"
        /\ \A k \in 1..Len(prov) : prov[k].pc = 0
        /\ schemas[prov[i].epoch] \cap WriteObjects = {}

\* --------------------------------------------------------------------
\* the slots stored in the partition of an epoch
SlotsStored(e) == {r.slot : r \in {q \in block_rows : q.epoch = e}}

\* C13: is_block_in_range(slot) answers true exactly when the epoch of the
\* slot has a range and the slot lies between its smallest and its largest
\* stored slot, and false otherwise
C13_CoveredIffInRange ==
    \A slot \in QuerySlots :
        is_block_in_range(slot).kind = "Ok"
            => (is_block_in_range(slot).value
                  <=> /\ SlotsStored(EpochOf(slot)) # {}
                      /\ SetMin(SlotsStored(EpochOf(slot))) <= slot
                      /\ slot <= SetMax(SlotsStored(EpochOf(slot))))

\* the epoch of slot 15 holds rows for slots below 15 only, and
\* is_block_in_range(15) answers true
C13_TrueOutsideRange ==
    /\ SlotsStored(EpochOf(15)) # {}
    /\ SetMax(SlotsStored(EpochOf(15))) < 15
    /\ is_block_in_range(15).kind = "Ok"
    /\ is_block_in_range(15).value

\* --------------------------------------------------------------------
\* C14: get_slot_range_by_epoch maps exactly the epochs whose partition
\* holds a block row, each to the smallest and the largest slot stored in
\* it, and get_slot_range is the smallest start and the largest end of
\* these ranges (when every epoch schema has its blocks table, so that the
\* query runs)
C14_RangeAggregation ==
    LET by_epoch == get_slot_range_by_epoch
        ranges == by_epoch.ranges
        all == get_slot_range
    IN  by_epoch.kind = "Ok"
        => /\ DOMAIN ranges = {e \in Epochs : SlotsStored(e) # {}}
           /\ \A e \in DOMAIN ranges :
                /\ ranges[e].start \in SlotsStored(e)
                /\ ranges[e].end \in SlotsStored(e)
                /\ \A s \in SlotsStored(e) :
                      ranges[e].start <= s /\ s <= ranges[e].end
           /\ DOMAIN ranges # {}
                => /\ all.kind = "Ok"
                   /\ \E e \in DOMAIN ranges : all.start = ranges[e].start
                   /\ \E e \in DOMAIN ranges : all.end = ranges[e].end
                   /\ \A e \in DOMAIN ranges :
                         all.start <= ranges[e].start /\ ranges[e].end <= all.end

\* two epochs hold rows: the epoch of slot 10 two of them, the epoch of
\* slot 20 one, and the overall range is [10, 20]
C14_TwoEpochRanges ==
    /\ SlotsStored(EpochOf(10)) = {10, 11}
    /\ SlotsStored(EpochOf(20)) = {20}
    /\ get_slot_range_by_epoch.kind = "Ok"
    /\ get_slot_range_by_epoch.ranges[EpochOf(10)] = [start |-> 10, end |-> 11]
    /\ get_slot_range.kind = "Ok"
    /\ get_slot_range.start = 10
    /\ get_slot_range.end = 20

\* --------------------------------------------------------------------
\* C15: when no epoch schema exists get_slot_range_by_epoch returns the
\* empty map, and whenever that map is empty get_slot_range reports that
\* there is no data instead of a range or a panic
C15_EmptyIsNoData ==
    /\ EpochSchemas = {}
         => /\ get_slot_range_by_epoch.kind = "Ok"
            /\ DOMAIN get_slot_range_by_epoch.ranges = {}
    /\ (get_slot_range_by_epoch.kind = "Ok"
          /\ DOMAIN get_slot_range_by_epoch.ranges = {})
         => get_slot_range.kind = "NoData"

\* a partition was created and holds no block row: the map of ranges is
\* empty and get_slot_range panics
C15_PanicWithoutRows ==
    /\ \E k \in 1..Len(prov) : prov[k].outcome = "Ok(true)"
    /\ \A e \in EpochSchemas : schemas[e] = AllSchemaObjects
    /\ block_rows = {}
    /\ get_slot_range_by_epoch.kind = "Ok"
    /\ DOMAIN get_slot_range_by_epoch.ranges = {}
    /\ get_slot_range.kind = "Panic"

C17_PrepareCurrentAndNext ==
    \A p \in 1..Len(prep) :
        LET c == prep[p].current_call
            n == prep[p].next_call
            e == EpochOf(prep[p].slot)
        IN  /\ prov[c].epoch = e
            /\ n # 0 => /\ c < n
                        /\ prov[n].epoch = e + 1
                        /\ prov[c].outcome \in {"Ok(true)", "Ok(false)"}
            /\ prep[p].outcome \in {"Ok(true)", "Ok(false)"}
                  => /\ n # 0
                     /\ prov[n].outcome \in {"Ok(true)", "Ok(false)"}
                     /\ (prep[p].outcome = "Ok(true)")
                           <=> (prov[c].outcome = "Ok(true)"
                                  \/ prov[n].outcome = "Ok(true)")
                     /\ "schema" \in schemas[e]
                     /\ "schema" \in schemas[e + 1]

\* one call created the partitions of both epochs and returned true, and
\* another call found both schemas and returned false
C17_CreatedThenNone ==
    \E p, q \in 1..Len(prep) :
        /\ prep[p].outcome = "Ok(true)"
        /\ prov[prep[p].current_call].outcome = "Ok(true)"
        /\ prov[prep[p].next_call].outcome = "Ok(true)"
        /\ prep[q].outcome = "Ok(false)"
        /\ prov[prep[q].current_call].outcome = "Ok(false)"
        /\ prov[prep[q].next_call].outcome = "Ok(false)"
        /\ prov[prep[p].next_call].epoch = get_next_epoch(EpochOf(prep[p].slot))

\* --------------------------------------------------------------------
\* C18: every batch execute hands to forward_txs holds at most
\* tx_batch_size entries
C18_BatchAtMostBatchSize ==
    /\ Len(last_handed.txs) <= tx_batch_size
    /\ \A t \in 1..Len(tasks) :
          /\ Len(tasks[t].txs) <= tx_batch_size
          /\ Len(tasks[t].sigs_and_slots) <= tx_batch_size

\* a forwarding task was spawned for a batch of tx_batch_size + 1 entries
C18_OversizedBatch ==
    \E t \in 1..Len(tasks) : Len(tasks[t].txs) = tx_batch_size + 1

\* --------------------------------------------------------------------
\* every chunk of the transactions of the block that call c wrote is in
\* the transactions table
AllChunksStored(c) ==
    \A i \in 1..Len(Chunks(wr[c].block.ntx)) :
        \E r \in tx_rows :
            /\ r.epoch = wr[c].epoch
            /\ r.slot = wr[c].block.slot
            /\ r.range = Chunks(wr[c].block.ntx)[i]

\* C19: whenever a write_block call found the row of its slot and returned
\* Ok without inserting transactions, all transactions of the block that
\* was recorded for the slot are stored
C19_SkipMeansComplete ==
    \A c \in 1..Len(wr) :
        (wr[c].inserted = "no" /\ wr[c].outcome = "Ok")
            => \E c0 \in 1..Len(wr) :
                  /\ wr[c0].inserted = "yes"
                  /\ wr[c0].epoch = wr[c].epoch
                  /\ wr[c0].block.slot = wr[c].block.slot
                  /\ AllChunksStored(c0)

\* a call inserted the row and lost a chunk of its transactions; a later
\* call for the slot found the row and returned Ok, and all calls are over
C19_SkippedOverPartialBlock ==
    \E c0, c \in 1..Len(wr) :
        /\ c0 < c
        /\ wr[c0].block.slot = wr[c].block.slot
        /\ wr[c0].inserted = "yes"
        /\ wr[c0].pc = "done"
        /\ wr[c0].outcome = "Panic"
        /\ wr[c].inserted = "no"
        /\ wr[c].outcome = "Ok"
        /\ ~AllChunksStored(c0)

\* --------------------------------------------------------------------
\* C20: for every transaction count n >= 0 and pool size p >= 1, with the
\* chunk size max(ceil(n / p), minimum chunk size), there are at most p
\* chunks: the assertion does not fire, chunk i is bound to the existing
\* session i, and no session gets two chunks of the block
C20_ChunkCountBound ==
    fanout.state = "done"
        => /\ Len(fanout.chunks) <= fanout.sessions
           /\ fanout.outcome = "Started"
           /\ Len(fanout.session_of) = Len(fanout.chunks)
           /\ \A i \in 1..Len(fanout.chunks) :
                 /\ fanout.session_of[i] = i
                 /\ fanout.session_of[i] \in 1..fanout.sessions
           /\ \A i, j \in 1..Len(fanout.chunks) :
                 fanout.session_of[i] = fanout.session_of[j] => i = j

\* 2001 transactions on the program's 4 sessions and minimum chunk size:
\* chunks of 501, and every session gets one
C20_EverySessionUsed ==
    /\ fanout.state = "done"
    /\ fanout.n = 2001
    /\ fanout.sessions = PARALLEL_WRITE_SESSIONS
    /\ fanout.min_chunk = MIN_WRITE_CHUNK_SIZE
    /\ Len(fanout.chunks) = PARALLEL_WRITE_SESSIONS
    /\ fanout.chunks[1] = <<1, 501>>
    /\ fanout.outcome = "Started"

\* --------------------------------------------------------------------
\* the number of transactions of chunk i of the computed fan-out
ChunkLen(i) == fanout.chunks[i][2] - fanout.chunks[i][1] + 1

\* C21 as stated: every chunk the fan-out produces contains at least
\* min(minimum chunk size, n) transactions
C21_EveryChunkAtLeastFloor ==
    fanout.state = "done"
        => \A i \in 1..Len(fanout.chunks) :
              ChunkLen(i) >= Min(fanout.min_chunk, fanout.n)

\* C21: the chunk size is at least the minimum chunk size, hence at least
\* min(minimum chunk size, n); every chunk but the last contains exactly
\* chunk size transactions and the last one between 1 and chunk size; the
\* chunks are consecutive and cover the n transactions
C21_ChunkSizeFloor ==
    fanout.state = "done"
        => LET size == chunk_size(fanout.n, fanout.sessions, fanout.min_chunk)
               last == Len(fanout.chunks)
           IN  /\ size >= fanout.min_chunk
               /\ size >= Min(fanout.min_chunk, fanout.n)
               /\ \A i \in 1..last :
                     /\ i < last => ChunkLen(i) = size
                     /\ 1 <= ChunkLen(i)
                     /\ ChunkLen(i) <= size
                     /\ fanout.chunks[i][1] =
                            IF i = 1 THEN 1 ELSE fanout.chunks[i - 1][2] + 1
               /\ (last = 0) <=> (fanout.n = 0)
               /\ last > 0 => fanout.chunks[last][2] = fanout.n

\* 501 transactions on the program's 4 sessions and minimum chunk size 500:
\* a chunk of 500 and a last chunk of one transaction
C21_ShortLastChunk ==
    /\ fanout.state = "done"
    /\ fanout.n = 501
    /\ fanout.sessions = PARALLEL_WRITE_SESSIONS
    /\ fanout.min_chunk = MIN_WRITE_CHUNK_SIZE
    /\ fanout.chunks = <<(<<1, 500>>), (<<501, 501>>)>>
    /\ ChunkLen(2) < Min(fanout.min_chunk, fanout.n)

\* --------------------------------------------------------------------
\* C22: a row of the transactions table for a slot exists in a partition
\* only if the row of the blocks table for that slot exists in the same
\* partition; a call has chunk inserts only after its own save inserted the
\* block row, and a chunk insert adds rows only for such a call
C22_BlockBeforeTransactions ==
    /\ [](\A r \in tx_rows : HasBlockRow(r.epoch, r.slot))
    /\ [](\A c \in 1..Len(wr) :
             (wr[c].chunks # <<>> \/ TxRowsBy(c) # {})
                => /\ wr[c].inserted = "yes"
                   /\ RowOf(wr[c].epoch, wr[c].block) \in block_rows)
    /\ [][\A r \in tx_rows' \ tx_rows :
             /\ wr[r.by].inserted = "yes"
             /\ wr[r.by].pc = "join"
             /\ r.epoch = wr[r.by].epoch
             /\ r.slot = wr[r.by].block.slot
             /\ HasBlockRow(r.epoch, r.slot)]_vars

\* two concurrent writes of slot 10: one inserted the row and then both of
\* its chunks, the other found the row and stored nothing
C22_ChunksAfterRow ==
    \E c1, c2 \in 1..Len(wr) :
        /\ c1 # c2
        /\ wr[c1].block.slot = wr[c2].block.slot
        /\ wr[c1].inserted = "yes"
        /\ Len(wr[c1].chunks) = 2
        /\ \A i \in 1..2 : wr[c1].chunks[i] = "ok"
        /\ Cardinality(TxRowsBy(c1)) = 2
        /\ wr[c2].inserted = "no"
        /\ Cardinality(tx_rows) = 2
        /\ HasBlockRow(wr[c1].epoch, wr[c1].block.slot)

\* --------------------------------------------------------------------
\* the payloads of the batches handed to forward_txs so far, in hand-over
\* order (the payload of the k-th submission is k)
RECURSIVE HandedTxs(_)
HandedTxs(t) == IF t = 0 THEN <<>> ELSE HandedTxs(t - 1) \o tasks[t].txs

\* the payloads the running cycle has accumulated and not yet handed over
Accumulating == IF pc = "while" THEN txs ELSE <<>>

\* the payloads still in the channel
InChannel == [i \in 1..Len(recv) |-> recv[i].tx]

\* C23: the batches handed to forward_txs, then the accumulator of the
\* running cycle, then the channel hold every submitted entry exactly once
\* and in submission order, with as many signatures as payloads in every
\* batch; in particular once execute has ended on a disconnection every
\* entry it dequeued is in a batch that was handed over
C23_NoEntryLostOrDuplicated ==
    /\ HandedTxs(Len(tasks)) \o Accumulating \o InChannel
          = [k \in 1..n_submitted |-> k]
    /\ \A t \in 1..Len(tasks) :
          Len(tasks[t].sigs_and_slots) = Len(tasks[t].txs)

\* execute ended on the disconnection while its accumulator held a
\* dequeued entry that no batch contains
C23_AccumulatedEntriesDropped ==
    /\ pc = "ended"
    /\ result = DisconnectedResult
    /\ recv = <<>>
    /\ txs # <<>>
    /\ \A i \in 1..Len(txs) : ~Handed(txs[i])

====
